---- MODULE Spec2Model ----
(***************************************************************************)
(* RAGroom ingestion: RagIngestTool.execute (LanceDB pipeline), its        *)
(* embedding client getEmbedding, and the standalone FAISS ingestion       *)
(* script.  Persistent state is the corpus, the cache file and the vector  *)
(* table; a run is split into steps at its await points.                   *)
(***************************************************************************)
EXTENDS Integers, Sequences, FiniteSets, TLC

\* ------------------------------------------------------------------ bounds
MaxRuns == 2
MaxMtime == 2
MaxChunks == 2
MaxSentences == 3
MaxHits == 6
MaxEntries == 3

\* ------------------------------------------------------- program constants
DefaultRetries == 3
DefaultSize == 1000
LANCEDB_TABLE_NAME == "vectors"
TopK == 5
SliceBytes == 512

\* ------------------------------------------------------------------ corpus
Paths == {"a.txt", "it's.txt"}
WalkOrder == <<"a.txt", "it's.txt">>
Mtimes == 1..MaxMtime

\* Content of path p at modification time v: number of chunks semanticChunks
\* yields for it (the content of a file is a function of its version).
ChunkCount(p, v) ==
  IF p = "a.txt" THEN 1 + (v % MaxChunks) ELSE v % 2

ChunkTexts(p, v) == [k \in 1..ChunkCount(p, v) |-> <<p, v, k>>]

\* -------------------------------------------------------- embedding service
Err == [kind |-> "error", vals |-> <<>>]
Arr(s) == [kind |-> "array", vals |-> s]
Responses ==
  {Err, [kind |-> "notArray", vals |-> <<>>], Arr(<<>>)}
  \cup {Arr(<<x>>) : x \in {"one", "huge", "nan", "inf"}}
\* What the service answers during a run of the tool: a transport error, a
\* malformed payload or an embedding.
RunResponses == {Err, Arr(<<"nan">>), Arr(<<"one">>)}

\* Float32Array element conversion: a finite double beyond the float32 range
\* becomes Infinity.
Float32Array(s) == [j \in 1..Len(s) |-> IF s[j] = "huge" THEN "inf" ELSE s[j]]

\* The condition of line 156 on one response.
Accepted(resp) ==
  /\ resp.kind = "array"
  /\ \A j \in 1..Len(resp.vals) : resp.vals[j] \in {"one", "huge"}

Null == [isNull |-> TRUE, vec |-> <<>>]
Vec(s) == [isNull |-> FALSE, vec |-> s]

\* A loop that makes one call too many.
GetEmbeddingStepOneMore(i, resp, retries) ==
  IF Accepted(resp)
    THEN [done |-> TRUE, threw |-> FALSE, out |-> Vec(Float32Array(resp.vals)), i |-> i]
    ELSE IF i + 1 <= retries
      THEN [done |-> FALSE, threw |-> FALSE, out |-> Null, i |-> i + 1]
      ELSE [done |-> TRUE, threw |-> FALSE, out |-> Null, i |-> i + 1]

\* One iteration of the loop of getEmbedding, entered with loop index i
\* (0-based) and the service's response to this call.
\* Gives [done, threw, out, i]: whether the function has ended, whether by an
\* exception, what it returned, and the loop index.
GetEmbeddingStep(i, resp, retries) ==
  IF Accepted(resp)
    THEN [done |-> TRUE, threw |-> FALSE, out |-> Vec(Float32Array(resp.vals)), i |-> i]
    ELSE IF i + 1 < retries
      THEN [done |-> FALSE, threw |-> FALSE, out |-> Null, i |-> i + 1]
      ELSE [done |-> TRUE, threw |-> FALSE, out |-> Null, i |-> i + 1]

\* ------------------------------------------------------------------- state
VARIABLES
  mtime,          \* corpus: modification time (= version) of every file
  gone,           \* corpus: the files that were removed from the directory
  cacheFile,      \* processed.json: "missing", "valid" (a JSON object),
                  \* "corrupt" (not JSON), "null" or "array" (other JSON)
  diskCache,      \* processed.json when valid: path -> mtime, 0 = no entry
  tableNames,     \* db.tableNames()
  table,          \* rows of the table, in insertion order
  aborted,        \* abortSignal.aborted of the call in progress
  pc,             \* position of execute: "idle" when no run is in progress
  run,            \* number of runs started
  result,         \* report of the last run
  processedFiles, \* execute: in-memory cache map
  filesToProcess, \* execute: the work set, [path, mtime] in walk order
  idx,            \* execute: position in filesToProcess (1-based)
  tableExists,    \* execute: const tableExists of line 283
  k,              \* execute: position in chunks (1-based)
  attempt,        \* getEmbedding: loop index i
  data,           \* execute: rows collected for the current file
  embOk,          \* chunks of the current file for which getEmbedding gave a vector
  embedded,       \* ollama.embeddings was called in this run
  mutated,        \* createTable, delete or add was called in this run
  incomplete,     \* this run left a file of its work set uncommitted
  last,           \* outcome of the file the loop has just left
  table0,         \* rows of the table when this run started
  since,          \* what happened since the corpus last changed
  after,          \* value of since when this run started
  written,        \* <<path, mtime>> of the processings whose rows were written
                  \* and that the cache file of this run could name
  gePc,           \* a lone call of getEmbedding: "idle", "loop", "returned", "threw"
  geI,            \* its loop index i
  geLog,          \* the service's responses to its calls so far
  geOut,          \* what it returned
  cPc,            \* a lone call of semanticChunks: "idle", "loop", "done"
  cSentences,     \* semanticChunks: lengths of the sentences of the text
  cSize,          \* semanticChunks: the size argument
  cPos,           \* semanticChunks: position in sentences (1-based)
  cBuf,           \* semanticChunks: buf, as [len, n]: length, sentences in it
  cOut,           \* semanticChunks: chunks yielded so far, as [len, n]
  gpPc,           \* a lone call of getParser: "idle", "called", "returned"
  gpIn,           \* the caller's file: [stem, ext, mode], ext in lower case
  gpPath,         \* getParser: filePath
  gpOut,          \* what it returned
  tPc,            \* a lone call of canLoadAsText: "idle", "called", "returned",
                  \* "threw"
  tIn,            \* the file at filePath, as canLoadAsText sees it
  tOut,           \* what it returned
  rPc,            \* retrieveContextForQuery: "idle", "exists", "connect",
                  \* "open", "embed", "search", "returned", "threw"
  rQuery,         \* retrieval: query
  rDir,           \* retrieval: fs.existsSync(LANCE_DB_PATH)
  rNames,         \* retrieval: the table names of the store
  rRanked,        \* retrieval: texts of the rows, nearest to the query first
  rI,             \* retrieval: loop index of getEmbedding
  rEmb,           \* retrieval: queryEmbedding
  rRaised,        \* retrieval: a step inside the try has raised
  rOut,           \* retrieval: what it returned
  zPromise,       \* extractZipStream: "none", "pending", "resolved", "rejected"
  zEntries,       \* the entries of the archive, each "dir" or "file"
  zPos,           \* number of entries yauzl has emitted
  zWant,          \* zipfile.readEntry() was called and has not answered yet
  zReads,         \* entries whose read stream is open
  zWrites,        \* entries whose write stream has not finished
  zWritten,       \* entries whose write stream has finished
  dPc,            \* a lone table.delete of the file loop: "idle", "called",
                  \* "deleted", "threw"
  dFile,          \* the path of the file being processed, as characters
  dRows,          \* the sources of the rows of the table before the delete
  dOut,           \* the sources of the rows of the table after it
  sPc,            \* script: position of main, "off" when it does not run
  sRuns,          \* script: number of starts of the script
  sExit,          \* script: exit code of the last run, -1 before the first
  sLog,           \* script: processed_files.json, a set of paths
  sDisk,          \* script: the saved FAISS index
  sSaved,         \* script: paths whose documents have been saved in the index
  sProcessed,     \* script: in-memory processedFiles
  sStore,         \* script: vectorStore
  sFiles,         \* script: filesToProcess
  sIdx,           \* script: position in filesToProcess (1-based)
  sEnd,           \* script: how the last run ended: "none", "zip", "nothing",
                  \* "finished", "error" (main rejected) or "killed"
  sNoIndex        \* script: FaissStore.fromDocuments threw in this run

toolVars == <<mtime, gone, cacheFile, diskCache, tableNames, table, aborted, pc, run,
              result, processedFiles, filesToProcess, idx, tableExists, k,
              attempt, data, embOk, embedded, mutated, incomplete, last, table0, since,
              after, written>>
geVars == <<gePc, geI, geLog, geOut>>
chunkVars == <<cPc, cSentences, cSize, cPos, cBuf, cOut>>
parserVars == <<gpPc, gpIn, gpPath, gpOut>>
textVars == <<tPc, tIn, tOut>>
delVars == <<dPc, dFile, dRows, dOut>>
retrVars == <<rPc, rQuery, rDir, rNames, rRanked, rI, rEmb, rRaised, rOut>>
zipVars == <<zPromise, zEntries, zPos, zWant, zReads, zWrites, zWritten>>
scriptVars == <<sPc, sRuns, sExit, sLog, sDisk, sSaved, sProcessed, sStore,
                sFiles, sIdx, sEnd, sNoIndex>>
vars == <<toolVars, geVars, chunkVars, scriptVars, parserVars, retrVars, zipVars,
         textVars, delVars>>

NoCache == [p \in Paths |-> 0]
NoFile == [path |-> "", status |-> "none", ok |-> <<>>]

\* JSON.parse(readFile(PROCESSED_FILES_CACHE)) inside try/catch, lines 258-261
LoadCache == IF cacheFile = "valid" THEN diskCache ELSE NoCache

\* walk(targetDir), line 254: the files that are in the directory.
Walk == SelectSeq(WalkOrder, LAMBDA p : p \notin gone)

\* line 266 reads processedFiles[file]: a TypeError when JSON.parse gave null.
DiffThrows == cacheFile = "null" /\ Walk # <<>>

\* JSON.stringify(processedFiles), line 346: an array is written with its
\* elements only, without the properties that line 339 has set on it.
Stringify(cache) ==
  IF cacheFile = "array"
    THEN [kind |-> "array", map |-> NoCache]
    ELSE [kind |-> "valid", map |-> cache]

\* A diff that ignores the cache.
IsStaleAlways(cache, p) == TRUE

\* A diff that only looks for files newer than their entry.
IsStaleNewer(cache, p) == cache[p] = 0 \/ cache[p] < mtime[p]

\* line 266
IsStale(cache, p) == cache[p] = 0 \/ cache[p] # mtime[p]

\* lines 263-269
WorkSet(cache) ==
  LET stale == SelectSeq(Walk, LAMBDA p : IsStale(cache, p))
  IN [j \in 1..Len(stale) |-> [path |-> stale[j], mtime |-> mtime[stale[j]]]]

CurFile == filesToProcess[idx]
CurChunks == ChunkTexts(CurFile.path, mtime[CurFile.path])

\* table.delete(`source = '...'`), line 320: only backslashes are escaped,
\* so a path with a quote gives a filter that does not parse.
FilterParses(p) == p # "it's.txt"

\* A delete that removes nothing.
DeleteNothing(rows, p) == rows

\* The rows that stay after table.delete with a filter that parses.
DeleteBySource(rows, p) == SelectSeq(rows, LAMBDA r : r.source # p)

GeInit ==
  /\ gePc = "idle" /\ geI = 0 /\ geLog = <<>> /\ geOut = Null

ToolInit ==
  /\ mtime = [p \in Paths |-> 1]
  /\ gone = {}
  /\ cacheFile = "missing"
  /\ diskCache = NoCache
  /\ tableNames = {}
  /\ table = <<>>
  /\ aborted = FALSE
  /\ pc = "idle"
  /\ run = 0
  /\ result = "none"
  /\ processedFiles = NoCache
  /\ filesToProcess = <<>>
  /\ idx = 0
  /\ tableExists = FALSE
  /\ k = 0
  /\ attempt = 0
  /\ data = <<>>
  /\ embOk = <<>>
  /\ embedded = FALSE
  /\ mutated = FALSE
  /\ incomplete = FALSE
  /\ last = NoFile
  /\ table0 = <<>>
  /\ since = "none"
  /\ after = "none"
  /\ written = {}

NoStore == [isNull |-> TRUE, docs |-> <<>>]

ScriptInit ==
  /\ sPc = "off"
  /\ sRuns = 0
  /\ sExit = -1
  /\ sLog = {}
  /\ sDisk = NoStore
  /\ sSaved = {}
  /\ sProcessed = {}
  /\ sStore = NoStore
  /\ sFiles = <<>>
  /\ sIdx = 0
  /\ sEnd = "none"
  /\ sNoIndex = FALSE

EmptyBuf == [len |-> 0, n |-> 0]

ChunkInit ==
  /\ cPc = "idle" /\ cSentences = <<>> /\ cSize = DefaultSize /\ cPos = 0
  /\ cBuf = EmptyBuf /\ cOut = <<>>

ParserInit ==
  /\ gpPc = "idle" /\ gpIn = ([stem |-> <<>>, ext |-> <<>>, mode |-> "lower"]) /\ gpPath = <<>> /\ gpOut = "none"

TextInit ==
  /\ tPc = "idle" /\ tIn = [readable |-> FALSE, bytes |-> 0, nulAt |-> 0,
                            len |-> 0, bad |-> 0]
  /\ tOut = FALSE

DelInit ==
  /\ dPc = "idle" /\ dFile = <<>> /\ dRows = <<>> /\ dOut = <<>>

NullString == [isNull |-> TRUE, str |-> ""]
String(t) == [isNull |-> FALSE, str |-> t]

RetrInit ==
  /\ rPc = "idle" /\ rQuery = "" /\ rDir = FALSE /\ rNames = {}
  /\ rRanked = <<>> /\ rI = 0 /\ rEmb = Null /\ rRaised = FALSE
  /\ rOut = NullString

ZipInit ==
  /\ zPromise = "none" /\ zEntries = <<>> /\ zPos = 0 /\ zWant = FALSE
  /\ zReads = {} /\ zWrites = {} /\ zWritten = {}

Init ==
  /\ ToolInit /\ GeInit /\ ChunkInit /\ ParserInit /\ RetrInit /\ ZipInit
  /\ TextInit /\ DelInit
  /\ ScriptInit

\* The run-local variables of execute go out of scope.
Leave ==
  /\ pc' = "idle"
  /\ processedFiles' = NoCache
  /\ filesToProcess' = <<>>
  /\ idx' = 0
  /\ tableExists' = FALSE
  /\ k' = 0
  /\ attempt' = 0
  /\ data' = <<>>
  /\ embOk' = <<>>
  /\ table0' = <<>>
  /\ last' = NoFile
  /\ incomplete' = FALSE

\* A report is returned.  complete: every file of the work set was committed.
Return(res, complete) ==
  /\ Leave
  /\ result' = res
  /\ since' = IF res \in {"finished", "uptodate"}
                THEN (IF complete THEN "complete" ELSE "returned")
                ELSE "none"

\* A file loop that a failed or skipped file ends.
NextFileOrBreak(status) ==
  /\ last' = [path |-> CurFile.path, status |-> status, ok |-> embOk]
  /\ incomplete' = (incomplete \/ status # "committed")
  /\ idx' = idx + 1
  /\ pc' = IF status = "committed" THEN "head" ELSE "persist"
  /\ k' = 0
  /\ attempt' = 0
  /\ data' = <<>>
  /\ embOk' = <<>>

\* A loop that stays on the file it has just left.
NextFileAgain(status) ==
  /\ last' = [path |-> CurFile.path, status |-> status, ok |-> embOk]
  /\ incomplete' = (incomplete \/ status # "committed")
  /\ idx' = idx
  /\ pc' = "head"
  /\ k' = 0
  /\ attempt' = 0
  /\ data' = <<>>
  /\ embOk' = <<>>

\* The per-file catch of lines 341-343, and `continue` of line 311.
NextFile(status) ==
  /\ last' = [path |-> CurFile.path, status |-> status, ok |-> embOk]
  /\ incomplete' = (incomplete \/ status # "committed")
  /\ idx' = idx + 1
  /\ pc' = "head"
  /\ k' = 0
  /\ attempt' = 0
  /\ data' = <<>>
  /\ embOk' = <<>>

\* A push that throws the collected rows away when an embedding is missing.
PushedOrReset(rows, out, row) == IF out.isNull THEN <<>> ELSE Append(rows, row)

\* A push that puts the new row first.
PushedFirst(rows, out, row) == IF out.isNull THEN rows ELSE <<row>> \o rows

\* lines 326-332: a row is collected only for a chunk that has an embedding.
Pushed(rows, out, row) == IF out.isNull THEN rows ELSE Append(rows, row)

\* A commit that does not depend on table.add.
CacheAfterAlways(cache, file, threw) == [cache EXCEPT ![file.path] = file.mtime]

\* Line 339 is reached only when table.add did not throw.
CacheAfter(cache, file, threw) ==
  IF threw THEN cache ELSE [cache EXCEPT ![file.path] = file.mtime]

\* A run that goes on with an empty work set.
UpToDateNever(ws) == FALSE

\* line 271: filesToProcess.length === 0
UpToDate(ws) == ws = <<>>

\* execute, lines 229-279: validation, abort test, walk, cache load, diff.
Execute ==
  /\ pc = "idle"
  /\ run < MaxRuns
  /\ run' = run + 1
  /\ embedded' = FALSE
  /\ mutated' = FALSE
  /\ after' = since
  /\ UNCHANGED <<gone, mtime, cacheFile, diskCache, tableNames, table>>
  /\ \E outcome \in {"ok", "invalid", "aborted", "ioerror"} :
       /\ aborted' = FALSE
       /\ CASE outcome = "invalid" -> Leave /\ result' = "rejected" /\ UNCHANGED since
            [] outcome = "aborted" -> Leave /\ result' = "cancelled" /\ UNCHANGED since
            [] outcome = "ioerror" -> Leave /\ result' = "failed" /\ UNCHANGED since
            [] OTHER ->
                 LET ws == WorkSet(LoadCache) IN
                 IF DiffThrows
                   THEN Leave /\ result' = "typeerror" /\ UNCHANGED since
                 ELSE IF UpToDate(ws)
                   THEN Return("uptodate", TRUE)
                   ELSE /\ pc' = "connect"
                        /\ processedFiles' = LoadCache
                        /\ filesToProcess' = ws
                        /\ idx' = 1
                        /\ table0' = table
                        /\ result' = "running"
                        /\ UNCHANGED <<since, tableExists, k, attempt,
                                       data, embOk, last, incomplete>>
  /\ written' = {w \in written : LoadCache[w[1]] = w[2]}
  /\ UNCHANGED <<geVars, chunkVars, scriptVars, parserVars, retrVars, zipVars,
                 textVars, delVars>>

\* What the file loop does when the chunks of the current file are known and
\* the old rows are out of the way: embed the chunks, or go straight to add.
ToEmbedding ==
  /\ k' = 1
  /\ attempt' = 0
  /\ data' = <<>>
  /\ embOk' = <<>>
  /\ pc' = IF Len(CurChunks) = 0 THEN "add" ELSE "embed"

\* A lookup that never finds the table.
IncludesNever(names, name) == FALSE

\* line 283: tableNames.includes(LANCEDB_TABLE_NAME)
Includes(names, name) == name \in names

\* lines 281-288: connect, tableNames, openTable.
Connect ==
  /\ pc = "connect"
  /\ \E ok \in BOOLEAN :
       IF ~ok
         THEN Return("failed", FALSE)
         ELSE /\ tableExists' = Includes(tableNames, LANCEDB_TABLE_NAME)
              /\ pc' = IF Includes(tableNames, LANCEDB_TABLE_NAME)
                         THEN "head" ELSE "sample"
              /\ attempt' = 0
              /\ UNCHANGED <<result, since, processedFiles, filesToProcess, idx,
                             k, data, embOk, last, incomplete, table0>>
  /\ UNCHANGED <<gone, mtime, cacheFile, diskCache, tableNames, table, run,
                 embedded, mutated, after>>
  /\ aborted' = (aborted /\ pc' # "idle")
  /\ UNCHANGED <<written, geVars, chunkVars, scriptVars, parserVars, retrVars,
                 zipVars, textVars, delVars>>

\* A bootstrap that goes on without the sample embedding.
SampleMissingNever(out) == FALSE

\* line 290: if (!sampleEmbedding)
SampleMissing(out) == out.isNull

\* lines 289-297: one call of the service for getEmbedding("sample"); when
\* getEmbedding returns, the throw of line 291 or createTable.
SampleAttempt ==
  /\ pc = "sample"
  /\ embedded' = TRUE
  /\ \E resp \in RunResponses, created \in BOOLEAN :
       LET st == GetEmbeddingStep(attempt, resp, DefaultRetries) IN
       IF ~st.done
         THEN /\ attempt' = st.i
              /\ UNCHANGED <<pc, result, since, processedFiles, filesToProcess,
                             idx, tableExists, k, data, embOk, last, incomplete, table0,
                             tableNames, table, mutated>>
         ELSE IF st.threw \/ SampleMissing(st.out) \/ ~created
           THEN /\ Return(IF SampleMissing(st.out) THEN "nosample" ELSE "failed", FALSE)
                /\ mutated' = (mutated \/ (~st.threw /\ ~SampleMissing(st.out)))
                /\ UNCHANGED <<tableNames, table>>
           ELSE /\ tableNames' = tableNames \cup {LANCEDB_TABLE_NAME}
                /\ table' = <<[source |-> "sample", text |-> (<<"sample", 0, 0>>),
                               vector |-> st.out.vec, run |-> run]>>
                /\ mutated' = TRUE
                /\ pc' = "head"
                /\ attempt' = 0
                /\ UNCHANGED <<result, since, processedFiles, filesToProcess,
                               idx, tableExists, k, data, embOk, last, incomplete, table0>>
  /\ UNCHANGED <<gone, mtime, cacheFile, diskCache, run, after>>
  /\ UNCHANGED <<written, geVars, chunkVars, scriptVars, parserVars, retrVars,
                 zipVars, textVars, delVars>>
  /\ aborted' = (aborted /\ pc' # "idle")

\* What a file of the work set may hold when the loop gets to it: a file
\* whose text gives no chunk is empty or blank; any file may have become
\* binary, garbled or unreadable.
ContentsAt(file) ==
  (IF ChunkCount(file.path, mtime[file.path]) = 0
     THEN {[readable |-> TRUE, bytes |-> 0, nulAt |-> 0, len |-> 0, bad |-> 0],
           [readable |-> TRUE, bytes |-> 1, nulAt |-> 0, len |-> 1, bad |-> 0]}
     ELSE {[readable |-> TRUE, bytes |-> 20, nulAt |-> 0, len |-> 20, bad |-> 0]})
  \cup {[readable |-> TRUE, bytes |-> 20, nulAt |-> 3, len |-> 20, bad |-> 0],
        [readable |-> TRUE, bytes |-> 20, nulAt |-> 0, len |-> 20, bad |-> 2],
        [readable |-> FALSE, bytes |-> 0, nulAt |-> 0, len |-> 0, bad |-> 0]}

\* line 169: replacement / str.length < 0.1 in IEEE arithmetic; 0 / 0 is NaN
\* and n / 0 is Infinity, and neither is below 0.1.
RatioBelowTenth(n, d) == IF d = 0 THEN FALSE ELSE 10 * n < d

\* A test that looks for a NUL in the whole file.
NulAnywhere(c, n) == c.nulAt # 0

\* lines 165-166: buf.subarray(0, 512).includes(0x00)
NulInSlice(c, n) == c.nulAt # 0 /\ c.nulAt <= n

\* canLoadAsText, lines 162-173: readFile that throws is caught at line 170.
canLoadAsText(c) ==
  IF ~c.readable THEN FALSE
  ELSE IF NulInSlice(c, SliceBytes) THEN FALSE
  ELSE RatioBelowTenth(c.bad, c.len)

\* A skip that gives the file its entry.
SkippedAndMarked(cache, file) == [cache EXCEPT ![file.path] = file.mtime]

\* lines 309-312: the skip of a file that is not text goes to the next file
\* and leaves the map as it is.
Skipped(cache, file) == cache

\* A loop head that does not look at the signal.
AbortSeenNever == FALSE

\* line 301: if (abortSignal.aborted)
AbortSeen == aborted

\* lines 300-316: loop head, abort test, canLoadAsText, readFile, chunking.
FileHead ==
  /\ pc = "head"
  /\ IF idx > Len(filesToProcess)
       THEN /\ pc' = "persist"
            /\ UNCHANGED <<idx, k, attempt, data, embOk, last, incomplete, processedFiles>>
       ELSE IF AbortSeen
         THEN /\ pc' = "persist"
              /\ incomplete' = TRUE
              /\ UNCHANGED <<idx, k, attempt, data, embOk, last, processedFiles>>
         ELSE \E c \in ContentsAt(CurFile), readThrows \in BOOLEAN :
                IF canLoadAsText(c)
                  THEN IF readThrows
                         THEN /\ NextFile("failed")
                              /\ UNCHANGED processedFiles
                         ELSE /\ IF tableExists
                                   THEN pc' = "delete" /\ UNCHANGED <<k, attempt, data, embOk>>
                                   ELSE ToEmbedding
                              /\ last' = NoFile
                              /\ UNCHANGED <<idx, incomplete, processedFiles>>
                  ELSE /\ NextFile(IF ~c.readable THEN "readerror"
                                   ELSE IF c.len = 0 THEN "zerobyte"
                                   ELSE "nontext")
                       /\ processedFiles' = Skipped(processedFiles, CurFile)
  /\ UNCHANGED <<gone, mtime, cacheFile, diskCache, tableNames, table, aborted, run,
                 result, filesToProcess, tableExists, embedded,
                 mutated, table0, since, after>>
  /\ UNCHANGED <<written, geVars, chunkVars, scriptVars, parserVars, retrVars,
                 zipVars, textVars, delVars>>

\* lines 318-321: delete the old rows of this file when the table existed.
DeleteOld ==
  /\ pc = "delete"
  /\ mutated' = TRUE
  /\ \E ok \in BOOLEAN :
       IF ok /\ FilterParses(CurFile.path)
         THEN /\ table' = DeleteBySource(table, CurFile.path)
              /\ ToEmbedding
              /\ UNCHANGED <<idx, last, incomplete>>
         ELSE /\ NextFile(IF FilterParses(CurFile.path) THEN "failed" ELSE "badfilter")
              /\ UNCHANGED table
  /\ UNCHANGED <<gone, mtime, cacheFile, diskCache, tableNames, aborted, run, result,
                 processedFiles, filesToProcess, tableExists, embedded, table0,
                 since, after>>
  /\ UNCHANGED <<written, geVars, chunkVars, scriptVars, parserVars, retrVars,
                 zipVars, textVars, delVars>>

\* lines 324-333: one call of the service for getEmbedding(chunk); when
\* getEmbedding returns, the push of lines 326-332 and the next chunk.
EmbedAttempt ==
  /\ pc = "embed"
  /\ embedded' = TRUE
  /\ \E resp \in RunResponses :
       LET st == GetEmbeddingStep(attempt, resp, DefaultRetries) IN
       IF ~st.done
         THEN /\ attempt' = st.i
              /\ UNCHANGED <<pc, k, data, embOk, idx, last, incomplete>>
         ELSE IF st.threw
           THEN NextFile("embedfailed")
           ELSE /\ attempt' = 0
                /\ k' = k + 1
                /\ pc' = IF k + 1 > Len(CurChunks) THEN "add" ELSE "embed"
                /\ data' = Pushed(data, st.out, [source |-> CurFile.path,
                                                 text |-> CurChunks[k],
                                                 vector |-> st.out.vec,
                                                 run |-> run])
                /\ embOk' = IF st.out.isNull THEN embOk ELSE Append(embOk, k)
                /\ UNCHANGED <<idx, last, incomplete>>
  /\ UNCHANGED <<gone, mtime, cacheFile, diskCache, tableNames, table, aborted, run,
                 result, processedFiles, filesToProcess, tableExists,
                 mutated, table0, since, after>>
  /\ UNCHANGED <<written, geVars, chunkVars, scriptVars, parserVars, retrVars,
                 zipVars, textVars, delVars>>

\* lines 335-340: table.add(data) when there is data, then the cache entry.
AddBatch ==
  /\ pc = "add"
  /\ \E ok \in BOOLEAN :
       LET threw == data # <<>> /\ ~ok IN
       /\ processedFiles' = CacheAfter(processedFiles, CurFile, threw)
       /\ mutated' = (mutated \/ data # <<>>)
       /\ IF threw
            THEN /\ NextFile("failed")
                 /\ UNCHANGED <<table, written>>
            ELSE /\ table' = table \o data
                 /\ written' = written \cup {<<CurFile.path, CurFile.mtime>>}
                 /\ NextFile("committed")
  /\ UNCHANGED <<gone, mtime, cacheFile, diskCache, tableNames, aborted, run, result,
                 filesToProcess, tableExists, embedded, table0, since, after>>
  /\ UNCHANGED <<geVars, chunkVars, scriptVars, parserVars, retrVars, zipVars,
                 textVars, delVars>>

\* lines 346-352: write the cache file, return the report.  A writeFile that
\* throws leaves the file as it was or cut short.
Persist ==
  /\ pc = "persist"
  /\ \E w \in {"ok", "throw", "throwcut"} :
       /\ cacheFile' = CASE w = "ok" -> Stringify(processedFiles).kind
                         [] w = "throw" -> cacheFile
                         [] OTHER -> "corrupt"
       /\ diskCache' = CASE w = "ok" -> Stringify(processedFiles).map
                         [] w = "throw" -> diskCache
                         [] OTHER -> NoCache
       /\ IF w = "ok" THEN Return("finished", (~incomplete)) ELSE Return("failed", FALSE)
  /\ UNCHANGED <<gone, mtime, tableNames, table, run, embedded, mutated, after>>
  /\ UNCHANGED <<written, geVars, chunkVars, scriptVars, parserVars, retrVars,
                 zipVars, textVars, delVars>>
  /\ aborted' = (aborted /\ pc' # "idle")

\* The process dies in the middle of a run; a death during writeFile may leave
\* the cache file cut short.
Crash ==
  /\ pc # "idle"
  /\ Leave
  /\ result' = "interrupted"
  /\ since' = "interrupted"
  /\ \E cut \in BOOLEAN :
       IF cut /\ pc = "persist"
         THEN cacheFile' = "corrupt" /\ diskCache' = NoCache
         ELSE UNCHANGED <<cacheFile, diskCache>>
  /\ UNCHANGED <<gone, mtime, tableNames, table, run, embedded, mutated, after>>
  /\ UNCHANGED <<written, geVars, chunkVars, scriptVars, parserVars, retrVars,
                 zipVars, textVars, delVars>>
  /\ aborted' = (aborted /\ pc' # "idle")

\* The user modifies a file between two runs; its modification time is the
\* time of the modification, later than the one before.
Touch ==
  /\ pc = "idle"
  /\ \E p \in Paths, m \in Mtimes :
       /\ m > mtime[p]
       /\ mtime' = [mtime EXCEPT ![p] = m]
  /\ since' = "none"
  /\ UNCHANGED <<gone, cacheFile, diskCache, tableNames, table, aborted, pc, run,
                 result, processedFiles, filesToProcess, idx, tableExists, k,
                 attempt, data, embOk, embedded, mutated, incomplete, last, table0, after>>
  /\ UNCHANGED <<written, geVars, chunkVars, scriptVars, parserVars, retrVars,
                 zipVars, textVars, delVars>>

\* The user removes a file from the directory between two runs.
Remove ==
  /\ pc = "idle"
  /\ \E p \in Paths \ gone : gone' = gone \cup {p}
  /\ since' = "none"
  /\ UNCHANGED <<mtime, cacheFile, diskCache, tableNames, table, aborted, pc,
                 run, result, processedFiles, filesToProcess, idx, tableExists,
                 k, attempt, data, embOk, embedded, mutated, incomplete, last,
                 table0, after>>
  /\ UNCHANGED <<written, geVars, chunkVars, scriptVars, parserVars, retrVars,
                 zipVars, textVars, delVars>>

\* The user cancels the running tool call, at any moment of the run.
Abort ==
  /\ pc # "idle"
  /\ ~aborted
  /\ aborted' = TRUE
  /\ UNCHANGED <<gone, mtime, cacheFile, diskCache, tableNames, table, pc, run,
                 result, processedFiles, filesToProcess, idx, tableExists, k,
                 attempt, data, embOk, embedded, mutated, incomplete, last, table0, since,
                 after>>
  /\ UNCHANGED <<written, geVars, chunkVars, scriptVars, parserVars, retrVars,
                 zipVars, textVars, delVars>>

\* ------------------------------------------------- a lone getEmbedding call
GeCall ==
  /\ gePc \in {"idle", "returned", "threw"}
  /\ gePc' = "loop"
  /\ geI' = 0
  /\ geLog' = <<>>
  /\ geOut' = Null
  /\ UNCHANGED <<toolVars, chunkVars, scriptVars, parserVars, retrVars,
                 zipVars, textVars, delVars>>

\* One iteration of the loop of lines 153-158.
GeAttempt ==
  /\ gePc = "loop"
  /\ \E resp \in Responses :
       LET st == GetEmbeddingStep(geI, resp, DefaultRetries) IN
       /\ geLog' = Append(geLog, resp)
       /\ geI' = st.i
       /\ gePc' = IF ~st.done THEN "loop" ELSE IF st.threw THEN "threw" ELSE "returned"
       /\ geOut' = st.out
  /\ UNCHANGED <<toolVars, chunkVars, scriptVars, parserVars, retrVars,
                 zipVars, textVars, delVars>>

GeNext == GeCall \/ GeAttempt

SpecEmbed == Init /\ [][GeNext]_vars

\* ------------------------------------------------ a lone semanticChunks call
\* Lengths of the sentences sbd.sentences gives (trimmed, not empty).
SentenceLens == {1, 13, 15, 499, 500, 998, 1000}
\* Values of the size argument: small, medium and the default.
Sizes == {15, 500, DefaultSize}

\* A size test with the comparison reversed.
FitsReversed(buf, s, size) == buf.len + s > size

\* line 179: buf.length + s.length < size
Fits(buf, s, size) == buf.len + s < size

\* An iteration that starts a new buffer without yielding the old one.
ChunkStepLosing(buf, s, size) ==
  IF Fits(buf, s, size)
    THEN [buf |-> [len |-> buf.len + (IF buf.len > 0 THEN 1 ELSE 0) + s,
                   n |-> buf.n + 1],
          out |-> <<>>]
    ELSE [buf |-> [len |-> s, n |-> 1], out |-> <<>>]

\* One iteration of the loop of lines 178-184 on a sentence of length s:
\* the new buf and what is yielded.  buf.trim() takes nothing off a buffer
\* made of trimmed sentences joined by single spaces.
ChunkStep(buf, s, size) ==
  IF Fits(buf, s, size)
    THEN [buf |-> [len |-> buf.len + (IF buf.len > 0 THEN 1 ELSE 0) + s,
                   n |-> buf.n + 1],
          out |-> <<>>]
    ELSE [buf |-> [len |-> s, n |-> 1],
          out |-> IF buf.len > 0 THEN <<buf>> ELSE <<>>]

\* semanticChunks on the sentences ss from position pos on, lines 178-185:
\* the chunks yielded, as [len, n].
RECURSIVE ChunkLoop(_, _, _, _, _)
ChunkLoop(ss, pos, buf, out, size) ==
  IF pos > Len(ss)
    THEN IF buf.len > 0 THEN Append(out, buf) ELSE out
    ELSE LET st == ChunkStep(buf, ss[pos], size)
         IN ChunkLoop(ss, pos + 1, st.buf, out \o st.out, size)

semanticChunks(ss, size) == ChunkLoop(ss, 1, EmptyBuf, <<>>, size)

\* semanticChunks(text, size) is called, line 176.
ChunkCall ==
  /\ cPc = "idle"
  /\ \E n \in 0..MaxSentences : \E ss \in [1..n -> SentenceLens] :
       cSentences' = ss
  /\ \E size \in Sizes : cSize' = size
  /\ cPc' = "loop"
  /\ cPos' = 1
  /\ cBuf' = EmptyBuf
  /\ cOut' = <<>>
  /\ UNCHANGED <<toolVars, geVars, scriptVars, parserVars, retrVars, zipVars,
                 textVars, delVars>>

\* lines 178-184
ChunkIter ==
  /\ cPc = "loop"
  /\ cPos <= Len(cSentences)
  /\ LET st == ChunkStep(cBuf, cSentences[cPos], cSize) IN
       /\ cBuf' = st.buf
       /\ cOut' = cOut \o st.out
  /\ cPos' = cPos + 1
  /\ UNCHANGED <<cPc, cSentences, cSize>>
  /\ UNCHANGED <<toolVars, geVars, scriptVars, parserVars, retrVars, zipVars,
                 textVars, delVars>>

\* line 185: the last buffer
ChunkEnd ==
  /\ cPc = "loop"
  /\ cPos > Len(cSentences)
  /\ cOut' = IF cBuf.len > 0 THEN Append(cOut, cBuf) ELSE cOut
  /\ cBuf' = EmptyBuf
  /\ cPc' = "done"
  /\ UNCHANGED <<cPos, cSentences, cSize>>
  /\ UNCHANGED <<toolVars, geVars, scriptVars, parserVars, retrVars, zipVars,
                 textVars, delVars>>

ChunkNext == ChunkCall \/ ChunkIter \/ ChunkEnd

SpecChunks == Init /\ [][ChunkNext]_vars

\* ------------------------------------------ the standalone ingestion script
ScriptWalk == <<"a.txt", "c.PNG", "e.txt", "b.pdf">>
\* A path is the sequence of its characters.
PathChars(p) == CASE p = "a.txt" -> <<"a", ".", "t", "x", "t">>
                  [] p = "c.PNG" -> <<"c", ".", "P", "N", "G">>
                  [] p = "e.txt" -> <<"e", ".", "t", "x", "t">>
                  [] p = "b.pdf" -> <<"b", ".", "p", "d", "f">>

\* The string of a sequence of characters.
RECURSIVE Text(_)
Text(cs) == IF cs = <<>> THEN "" ELSE cs[1] \o Text(Tail(cs))

UpperCase == <<"A", "B", "C", "D", "E", "F", "G", "H", "I", "J", "K", "L", "M",
               "N", "O", "P", "Q", "R", "S", "T", "U", "V", "W", "X", "Y", "Z">>
LowerCase == <<"a", "b", "c", "d", "e", "f", "g", "h", "i", "j", "k", "l", "m",
               "n", "o", "p", "q", "r", "s", "t", "u", "v", "w", "x", "y", "z">>

LowerOf(c) ==
  IF \E i \in 1..26 : UpperCase[i] = c
    THEN LowerCase[CHOOSE i \in 1..26 : UpperCase[i] = c]
    ELSE c

\* A conversion that leaves the letters as they are.
ToLowerCaseNot(cs) == cs

\* String.prototype.toLowerCase
ToLowerCase(cs) == [j \in 1..Len(cs) |-> LowerOf(cs[j])]

\* path.basename: what follows the last separator.
RECURSIVE BaseName(_)
BaseName(cs) ==
  IF \E j \in 1..Len(cs) : cs[j] = "/"
    THEN BaseName(Tail(cs))
    ELSE cs

\* path.extname: from the last dot of the basename to its end; empty when
\* there is no dot or when the only dot is the first character of the basename.
ExtName(cs) ==
  LET b == BaseName(cs)
      dots == {j \in 1..Len(b) : b[j] = "."}
      d == IF dots = {} THEN 0 ELSE CHOOSE j \in dots : \A i \in dots : i <= j
  IN IF d <= 1 \/ b = <<".", ".">> THEN <<>> ELSE SubSeq(b, d, Len(b))

BINARY_EXTENSIONS ==
  {".png", ".jpg", ".jpeg", ".gif", ".bmp", ".tiff", ".ico", ".webp", ".mp3",
   ".wav", ".ogg", ".mp4", ".avi", ".mov", ".mkv", ".webm", ".zip", ".rar",
   ".7z", ".tar", ".gz", ".exe", ".dll", ".so", ".app", ".bin", ".woff",
   ".woff2", ".ttf", ".otf", ".eot", ".pdf", ".docx", ".doc", ".xls", ".xlsx",
   ".ppt", ".pptx", ".sqlite", ".db"}

getParser(filePath) ==
  LET extension == Text(ToLowerCase(ExtName(filePath))) IN
  IF extension = ".pdf" THEN "PdfParser"
  ELSE IF extension = ".docx" THEN "DocxParser"
  ELSE IF extension \in BINARY_EXTENSIONS THEN "null"
  ELSE "TextParser"

\* getParser for each file the script finds in the documents directory.
ParserOfFile ==
  [f \in {ScriptWalk[j] : j \in 1..Len(ScriptWalk)} |-> getParser(PathChars(f))]

\* ------------------------------------------------- a lone call of getParser
\* Extensions of the files given to getParser, in lower case: those of
\* BINARY_EXTENSIONS, none, and some that are not in the set.
LowerExts ==
  {<<".", "p", "n", "g">>, <<".", "j", "p", "g">>, <<".", "j", "p", "e",
   "g">>, <<".", "g", "i", "f">>, <<".", "b", "m", "p">>, <<".", "t", "i",
   "f", "f">>, <<".", "i", "c", "o">>, <<".", "w", "e", "b", "p">>, <<".",
   "m", "p", "3">>, <<".", "w", "a", "v">>, <<".", "o", "g", "g">>, <<".",
   "m", "p", "4">>, <<".", "a", "v", "i">>, <<".", "m", "o", "v">>, <<".",
   "m", "k", "v">>, <<".", "w", "e", "b", "m">>, <<".", "z", "i", "p">>,
   <<".", "r", "a", "r">>, <<".", "7", "z">>, <<".", "t", "a", "r">>, <<".",
   "g", "z">>, <<".", "e", "x", "e">>, <<".", "d", "l", "l">>, <<".", "s",
   "o">>, <<".", "a", "p", "p">>, <<".", "b", "i", "n">>, <<".", "w", "o",
   "f", "f">>, <<".", "w", "o", "f", "f", "2">>, <<".", "t", "t", "f">>,
   <<".", "o", "t", "f">>, <<".", "e", "o", "t">>, <<".", "p", "d", "f">>,
   <<".", "d", "o", "c", "x">>, <<".", "d", "o", "c">>, <<".", "x", "l",
   "s">>, <<".", "x", "l", "s", "x">>, <<".", "p", "p", "t">>, <<".", "p",
   "p", "t", "x">>, <<".", "s", "q", "l", "i", "t", "e">>, <<".", "d",
   "b">>, <<>>, <<".", "t", "x", "t">>, <<".", "m", "d">>, <<".", "p", "d",
   "f", "x">>, <<".">>, <<".", "t", "s">>}

UpperOf(c) ==
  IF \E i \in 1..26 : LowerCase[i] = c
    THEN UpperCase[CHOOSE i \in 1..26 : LowerCase[i] = c]
    ELSE c

\* How the extension is written in the name of the file: in lower case, in
\* upper case, or with its first letter in upper case.
Cased(cs, mode) ==
  [j \in 1..Len(cs) |->
     IF mode = "upper" \/ (mode = "first" /\ j = 2) THEN UpperOf(cs[j]) ELSE cs[j]]

ParserInputs ==
  [stem : {<<"a">>, <<"d", ".", "p", "d", "f", "/", "b">>},
   ext : LowerExts, mode : {"lower", "upper", "first"}]
PathOf(in) == in.stem \o Cased(in.ext, in.mode)

\* getParser(filePath) is called.
GetParserCall ==
  /\ gpPc = "idle"
  /\ \E in \in ParserInputs :
       /\ gpIn' = in
       /\ gpPath' = PathOf(in)
  /\ gpPc' = "called"
  /\ gpOut' = "none"
  /\ UNCHANGED <<toolVars, geVars, chunkVars, scriptVars, retrVars, zipVars,
                 textVars, delVars>>

\* lines 65-71
GetParserReturn ==
  /\ gpPc = "called"
  /\ gpOut' = getParser(gpPath)
  /\ gpPc' = "returned"
  /\ UNCHANGED <<gpIn, gpPath>>
  /\ UNCHANGED <<toolVars, geVars, chunkVars, scriptVars, retrVars, zipVars,
                 textVars, delVars>>

ParserNext == GetParserCall \/ GetParserReturn

SpecParser == Init /\ [][ParserNext]_vars

\* --------------------------------------------- a lone call of canLoadAsText
\* Sizes of the files given to canLoadAsText, in bytes, and the positions a
\* first NUL byte may have in them: around the end of the slice.
FileBytes == {0, 1, 9, 10, 11, 20, SliceBytes, SliceBytes + 1, 600}

\* The files: a decoding is as long as the file (one-byte characters and
\* invalid bytes) or half as long (two-byte characters), and holds from none
\* to all of its characters as U+FFFD, a NUL not being one.
TextFiles ==
  {[readable |-> r, bytes |-> b, nulAt |-> z, len |-> n, bad |-> x] :
     r \in BOOLEAN, b \in FileBytes, z \in {0} \cup ({1, SliceBytes, SliceBytes + 1, 600}),
     n \in {0} \cup FileBytes \cup {b \div 2 : b \in FileBytes},
     x \in {0, 1, 2, 51, 52, 60}}

\* canLoadAsText(filePath) is called.
TextCall ==
  /\ tPc = "idle"
  /\ \E c \in TextFiles :
       /\ c.nulAt <= c.bytes
       /\ c.len \in {c.bytes, c.bytes \div 2}
       /\ c.bad + (IF c.nulAt = 0 THEN 0 ELSE 1) <= c.len
       /\ tIn' = c
  /\ tPc' = "called"
  /\ UNCHANGED tOut
  /\ UNCHANGED <<toolVars, geVars, chunkVars, scriptVars, parserVars, retrVars,
                 zipVars, delVars>>

\* lines 162-173: every statement is inside the try, and the catch returns.
TextReturn ==
  /\ tPc = "called"
  /\ tOut' = canLoadAsText(tIn)
  /\ tPc' = "returned"
  /\ UNCHANGED tIn
  /\ UNCHANGED <<toolVars, geVars, chunkVars, scriptVars, parserVars, retrVars,
                 zipVars, delVars>>

TextNext == TextCall \/ TextReturn

SpecText == Init /\ [][TextNext]_vars

\* ------------------------------------- a lone call of retrieveContextForQuery

\* Array.prototype.join
RECURSIVE Join(_, _)
Join(ts, sep) ==
  IF ts = <<>> THEN ""
  ELSE IF Len(ts) = 1 THEN ts[1]
  ELSE ts[1] \o sep \o Join(Tail(ts), sep)

\* A search without a limit.
LimitNone(rows, n) == rows

\* .limit(5), line 46
Limit(rows, n) == SubSeq(rows, 1, IF Len(rows) < n THEN Len(rows) ELSE n)

\* lines 53-54
FormatContext(results, query) ==
  "Context:\n" \o Join(results, "\n---\n") \o "\n\nQuestion: " \o query

\* return null, from the body or from the catch of lines 56-59.
RReturnNull(raised) ==
  /\ rPc' = "returned"
  /\ rOut' = NullString
  /\ rRaised' = raised

\* retrieveContextForQuery(query) is called on some store.
RCall ==
  /\ rPc = "idle"
  /\ \E q \in ({"q", "why?"}), dir \in BOOLEAN, n \in 0..MaxHits,
        names \in {{}, {"other"}, {LANCEDB_TABLE_NAME}, {"other", LANCEDB_TABLE_NAME}} :
       /\ rQuery' = q
       /\ rDir' = dir
       /\ rNames' = IF dir THEN names ELSE {}
       /\ rRanked' = IF dir /\ LANCEDB_TABLE_NAME \in names
                       THEN [j \in 1..n |-> "t" \o ToString(j)] ELSE <<>>
  /\ rPc' = "exists"
  /\ UNCHANGED <<rI, rEmb, rRaised, rOut>>
  /\ UNCHANGED <<toolVars, geVars, chunkVars, parserVars, scriptVars, zipVars,
                 textVars, delVars>>

\* lines 27-29
RExists ==
  /\ rPc = "exists"
  /\ IF ~rDir THEN RReturnNull(FALSE)
               ELSE rPc' = "connect" /\ UNCHANGED <<rOut, rRaised>>
  /\ UNCHANGED <<rQuery, rDir, rNames, rRanked, rI, rEmb>>
  /\ UNCHANGED <<toolVars, geVars, chunkVars, parserVars, scriptVars, zipVars,
                 textVars, delVars>>

\* lines 32-36: connect, tableNames, the test of the table name.
RConnect ==
  /\ rPc = "connect"
  /\ \E ok \in BOOLEAN :
       IF ~ok THEN RReturnNull(TRUE)
       ELSE IF LANCEDB_TABLE_NAME \notin rNames THEN RReturnNull(FALSE)
       ELSE rPc' = "open" /\ UNCHANGED <<rOut, rRaised>>
  /\ UNCHANGED <<rQuery, rDir, rNames, rRanked, rI, rEmb>>
  /\ UNCHANGED <<toolVars, geVars, chunkVars, parserVars, scriptVars, zipVars,
                 textVars, delVars>>

\* line 38
ROpen ==
  /\ rPc = "open"
  /\ \E ok \in BOOLEAN :
       IF ~ok THEN RReturnNull(TRUE)
       ELSE rPc' = "embed" /\ UNCHANGED <<rOut, rRaised>>
  /\ UNCHANGED <<rQuery, rDir, rNames, rRanked, rI, rEmb>>
  /\ UNCHANGED <<toolVars, geVars, chunkVars, parserVars, scriptVars, zipVars,
                 textVars, delVars>>

\* lines 39-42: one call of the service for getEmbedding(query); when
\* getEmbedding returns, the test of line 40.
REmbed ==
  /\ rPc = "embed"
  /\ \E resp \in RunResponses :
       LET st == GetEmbeddingStep(rI, resp, DefaultRetries) IN
       /\ rI' = st.i
       /\ IF ~st.done
            THEN UNCHANGED <<rPc, rEmb, rOut, rRaised>>
            ELSE IF st.out.isNull
              THEN RReturnNull(st.threw) /\ UNCHANGED rEmb
              ELSE rPc' = "search" /\ rEmb' = st.out /\ UNCHANGED <<rOut, rRaised>>
  /\ UNCHANGED <<rQuery, rDir, rNames, rRanked>>
  /\ UNCHANGED <<toolVars, geVars, chunkVars, parserVars, scriptVars, zipVars,
                 textVars, delVars>>

\* lines 44-54: the search, the test of line 49, the context.
RSearch ==
  /\ rPc = "search"
  /\ \E ok \in BOOLEAN :
       LET results == Limit(rRanked, TopK) IN
       IF ~ok THEN RReturnNull(TRUE)
       ELSE IF Len(results) = 0 THEN RReturnNull(FALSE)
       ELSE /\ rPc' = "returned"
            /\ rOut' = String(FormatContext(results, rQuery))
            /\ UNCHANGED rRaised
  /\ UNCHANGED <<rQuery, rDir, rNames, rRanked, rI, rEmb>>
  /\ UNCHANGED <<toolVars, geVars, chunkVars, parserVars, scriptVars, zipVars,
                 textVars, delVars>>

RetrNext == RCall \/ RExists \/ RConnect \/ ROpen \/ REmbed \/ RSearch

SpecRetrieval == Init /\ [][RetrNext]_vars

\* --------------------------------------------- a call of extractZipStream
\* extractZipStream(zipPath, outDir) is called, lines 4-7 and 23-25:
\* yauzl.open fails, or the handlers are set and the first entry is asked for.
ZCall ==
  /\ zPromise = "none"
  /\ \E n \in 0..MaxEntries : \E es \in [1..n -> {"dir", "file"}] :
       zEntries' = es
  /\ \E ok \in BOOLEAN :
       /\ zPromise' = IF ok THEN "pending" ELSE "rejected"
       /\ zWant' = ok
  /\ UNCHANGED <<zPos, zReads, zWrites, zWritten>>
  /\ UNCHANGED <<toolVars, geVars, chunkVars, parserVars, retrVars,
                 scriptVars, textVars, delVars>>

\* yauzl answers readEntry, lines 8-24: "end" after the last entry, "error",
\* or the next entry: a directory is made and the next entry asked for; for a
\* file the read stream is opened and piped to a new write stream.
ZEntry ==
  /\ zWant
  /\ \E ok \in BOOLEAN, openOk \in BOOLEAN :
       IF ~ok
         THEN /\ zPromise' = IF zPromise = "pending" THEN "rejected" ELSE zPromise
              /\ zWant' = FALSE
              /\ UNCHANGED <<zPos, zReads, zWrites>>
       ELSE IF zPos = Len(zEntries)
         THEN /\ zPromise' = IF zPromise = "pending" THEN "resolved" ELSE zPromise
              /\ zWant' = FALSE
              /\ UNCHANGED <<zPos, zReads, zWrites>>
       ELSE /\ zPos' = zPos + 1
            /\ IF zEntries[zPos + 1] = "dir"
                 THEN UNCHANGED <<zPromise, zWant, zReads, zWrites>>
                 ELSE IF ~openOk
                   THEN /\ zPromise' = IF zPromise = "pending" THEN "rejected"
                                       ELSE zPromise
                        /\ zWant' = FALSE
                        /\ UNCHANGED <<zReads, zWrites>>
                   ELSE /\ zReads' = zReads \cup {zPos + 1}
                        /\ zWrites' = zWrites \cup {zPos + 1}
                        /\ zWant' = FALSE
                        /\ UNCHANGED zPromise
  /\ UNCHANGED <<zEntries, zWritten>>
  /\ UNCHANGED <<toolVars, geVars, chunkVars, parserVars, retrVars,
                 scriptVars, textVars, delVars>>

\* The read stream of entry j ends, line 18: the next entry is asked for; the
\* pipe of line 19 ends the write stream, which still has to flush.
ZReadEnd ==
  /\ \E j \in zReads :
       /\ zReads' = zReads \ {j}
       /\ zWant' = TRUE
  /\ UNCHANGED <<zPromise, zEntries, zPos, zWrites, zWritten>>
  /\ UNCHANGED <<toolVars, geVars, chunkVars, parserVars, retrVars,
                 scriptVars, textVars, delVars>>

\* The write stream of entry j, ended by the pipe, has written everything.
ZFinish ==
  /\ \E j \in zWrites \ zReads :
       /\ zWrites' = zWrites \ {j}
       /\ zWritten' = zWritten \cup {j}
  /\ UNCHANGED <<zPromise, zEntries, zPos, zWant, zReads>>
  /\ UNCHANGED <<toolVars, geVars, chunkVars, parserVars, retrVars,
                 scriptVars, textVars, delVars>>

ZipNext == ZCall \/ ZEntry \/ ZReadEnd \/ ZFinish

SpecZip == Init /\ [][ZipNext]_vars

\* The documents the splitter makes of a script file: one chunk, or none for
\* e.txt, an empty file.
DocsOf(p) == [j \in 1..(IF p = "e.txt" THEN 0 ELSE 1) |-> <<p, j>>]

\* loadProcessedFiles, lines 146-154
loadProcessedFiles == sLog

\* main, lines 27-83: extraction, processed log, work set, index load.
SMain ==
  /\ sPc = "off"
  /\ sRuns < MaxRuns
  /\ sRuns' = sRuns + 1
  /\ sNoIndex' = FALSE
  /\ \E zipOk \in BOOLEAN, loadOk \in BOOLEAN, allFiles \in ({ScriptWalk, <<"a.txt", "e.txt", "b.pdf">>}) :
       IF ~zipOk
         THEN /\ sExit' = 1
              /\ sEnd' = "zip"
              /\ UNCHANGED <<sPc, sProcessed, sStore, sFiles, sIdx>>
         ELSE LET todo == SelectSeq(allFiles, LAMBDA f : f \notin loadProcessedFiles) IN
              IF todo = <<>>
                THEN /\ sExit' = 0
                     /\ sEnd' = "nothing"
                     /\ UNCHANGED <<sPc, sProcessed, sStore, sFiles, sIdx>>
                ELSE /\ sPc' = "loop"
                     /\ sEnd' = "none"
                     /\ sProcessed' = loadProcessedFiles
                     /\ sFiles' = todo
                     /\ sIdx' = 1
                     /\ sStore' = IF loadOk /\ ~sDisk.isNull THEN sDisk ELSE NoStore
                     /\ UNCHANGED sExit
  /\ UNCHANGED <<sLog, sDisk, sSaved>>
  /\ UNCHANGED <<toolVars, geVars, chunkVars, parserVars, retrVars, zipVars,
                 textVars, delVars>>

\* One iteration of the loop of lines 93-128.
SFile ==
  /\ sPc = "loop"
  /\ sIdx <= Len(sFiles)
  /\ sIdx' = sIdx + 1
  /\ LET f == sFiles[sIdx] IN
     IF ParserOfFile[f] = "null"
       THEN UNCHANGED <<sProcessed, sStore, sNoIndex>>
       ELSE \E parsed \in BOOLEAN, embedOk \in BOOLEAN :
              LET chunks == IF parsed THEN DocsOf(f) ELSE <<>> IN
              IF chunks # <<>> /\ ~embedOk
                THEN /\ sNoIndex' = (sNoIndex \/ sStore.isNull)
                     /\ UNCHANGED <<sProcessed, sStore>>
                ELSE /\ sStore' = IF chunks = <<>> THEN sStore
                                  ELSE [isNull |-> FALSE, docs |-> sStore.docs \o chunks]
                     /\ sProcessed' = sProcessed \cup {f}
                     /\ UNCHANGED sNoIndex
  /\ UNCHANGED <<sPc, sRuns, sExit, sLog, sDisk, sSaved, sFiles, sEnd>>
  /\ UNCHANGED <<toolVars, geVars, chunkVars, parserVars, retrVars, zipVars,
                 textVars, delVars>>

\* lines 132-136: save the index when there is one.  With no store, no
\* processed file has documents; after a save, the documents of every
\* processed file are in the saved index.
SSaveIndex ==
  /\ sPc = "loop"
  /\ sIdx > Len(sFiles)
  /\ \E ok \in BOOLEAN :
       IF sStore.isNull
         THEN /\ sPc' = "savelog"
              /\ sSaved' = sSaved \cup sProcessed
              /\ UNCHANGED <<sDisk, sExit, sProcessed, sStore, sFiles, sIdx, sEnd>>
         ELSE IF ok
           THEN /\ sDisk' = sStore
                /\ sSaved' = sSaved \cup sProcessed
                /\ sPc' = "savelog"
                /\ UNCHANGED <<sExit, sProcessed, sStore, sFiles, sIdx, sEnd>>
           ELSE /\ sPc' = "off"
                /\ sExit' = 1
                /\ sEnd' = "error"
                /\ sProcessed' = {}
                /\ sStore' = NoStore
                /\ sFiles' = <<>>
                /\ sIdx' = 0
                /\ UNCHANGED <<sDisk, sSaved>>
  /\ UNCHANGED <<sRuns, sLog, sNoIndex>>
  /\ UNCHANGED <<toolVars, geVars, chunkVars, parserVars, retrVars, zipVars,
                 textVars, delVars>>

\* lines 137-143 and saveProcessedFiles: write the processed log, clean up.
SSaveLog ==
  /\ sPc = "savelog"
  /\ \E ok \in BOOLEAN :
       /\ sLog' = IF ok THEN sProcessed ELSE sLog
       /\ sExit' = IF ok THEN 0 ELSE 1
       /\ sEnd' = IF ok THEN "finished" ELSE "error"
  /\ sPc' = "off"
  /\ sProcessed' = {}
  /\ sStore' = NoStore
  /\ sFiles' = <<>>
  /\ sIdx' = 0
  /\ UNCHANGED <<sRuns, sDisk, sSaved, sNoIndex>>
  /\ UNCHANGED <<toolVars, geVars, chunkVars, parserVars, retrVars, zipVars,
                 textVars, delVars>>

\* The script's process is killed.
SKill ==
  /\ sPc # "off"
  /\ sPc' = "off"
  /\ sExit' = 1
  /\ sEnd' = "killed"
  /\ sProcessed' = {}
  /\ sStore' = NoStore
  /\ sFiles' = <<>>
  /\ sIdx' = 0
  /\ UNCHANGED <<sRuns, sLog, sDisk, sSaved, sNoIndex>>
  /\ UNCHANGED <<toolVars, geVars, chunkVars, parserVars, retrVars, zipVars,
                 textVars, delVars>>

ScriptNext == SMain \/ SFile \/ SSaveIndex \/ SSaveLog \/ SKill

SpecScript == Init /\ [][ScriptNext]_vars

Next ==
  \/ Execute
  \/ Connect
  \/ SampleAttempt
  \/ FileHead
  \/ DeleteOld
  \/ EmbedAttempt
  \/ AddBatch
  \/ Persist
  \/ Crash
  \/ Touch
  \/ Abort

Spec == Init /\ [][Next]_vars

\* The tool over a corpus that loses files.
GoneNext == Next \/ Remove

SpecGone == Init /\ [][GoneNext]_vars

\* The steps of a run in progress: each is the return or the throw of the
\* call the run is waiting for.
RunStep ==
  \/ Connect
  \/ SampleAttempt
  \/ FileHead
  \/ DeleteOld
  \/ EmbedAttempt
  \/ AddBatch
  \/ Persist

\* Runs whose process does not die, over a corpus that was edited before the
\* first of them: every call they await returns or throws.
LiveNext ==
  \/ Execute
  \/ RunStep
  \/ run = 0 /\ Touch
  \/ Abort

SpecLive == Init /\ [][LiveNext]_vars /\ WF_vars(RunStep)

\* Between two runs the corpus and the store directory are put back from a
\* backup: any modification times (older ones too) and any cache file.
Restore ==
  /\ pc = "idle"
  /\ \E m \in [Paths -> Mtimes], c \in [Paths -> 0..MaxMtime],
        f \in {"missing", "valid", "corrupt"} :
       /\ mtime' = m
       /\ cacheFile' = f
       /\ diskCache' = IF f = "valid" THEN c ELSE NoCache
  /\ result' = "none"
  /\ since' = "none"
  /\ UNCHANGED <<gone, tableNames, table, aborted, pc, run, processedFiles,
                 filesToProcess, idx, tableExists, k, attempt, data, embOk,
                 embedded, mutated, incomplete, last, table0, after>>
  /\ UNCHANGED <<written, geVars, chunkVars, scriptVars, parserVars, retrVars,
                 zipVars, textVars, delVars>>

\* Between two runs the cache file is lost or damaged: deleted, cut short, or
\* replaced by JSON that is not an object.
Damage ==
  /\ pc = "idle"
  /\ \E f \in {"missing", "corrupt", "null", "array"} : cacheFile' = f
  /\ diskCache' = NoCache
  /\ result' = "none"
  /\ since' = "none"
  /\ UNCHANGED <<gone, mtime, tableNames, table, aborted, pc, run, processedFiles,
                 filesToProcess, idx, tableExists, k, attempt, data, embOk,
                 embedded, mutated, incomplete, last, table0, after>>
  /\ UNCHANGED <<written, geVars, chunkVars, scriptVars, parserVars, retrVars,
                 zipVars, textVars, delVars>>

CacheNext == Next \/ Damage

SpecCache == Init /\ [][CacheNext]_vars

\* The diff of execute on any corpus and cache: the run is stopped after it.
DiffNext == Restore \/ Execute \/ Crash

SpecDiff == Init /\ [][DiffNext]_vars

\* One deployment uses one of the two pipelines.
NextBoth ==
  \/ sRuns = 0 /\ Next
  \/ run = 0 /\ mtime = [p \in Paths |-> 1] /\ ScriptNext

SpecBoth == Init /\ [][NextBoth]_vars

\* The tool, or a lone call of semanticChunks.
NextChunked ==
  \/ cPc = "idle" /\ Next
  \/ run = 0 /\ mtime = [p \in Paths |-> 1] /\ ChunkNext

SpecChunked == Init /\ [][NextChunked]_vars

\* ------------------------------------ a lone table.delete of the file loop
\* Paths of files, as characters: a plain one, one with an apostrophe, one
\* with a doubled apostrophe and one that has two apostrophes with SQL
\* between them.
PlainPath == <<"a", ".", "t", "x", "t">>
QuotePath == <<"i", "t", "'", "s", ".", "t", "x", "t">>
DoubledPath == <<"o", "'", "'", "k", ".", "t", "x", "t">>
CraftedPath == <<"x", "'", " ", "O", "R", " ", "s", "o", "u", "r", "c", "e",
                 " ", "!", "=", " ", "'", "y", ".", "t", "x", "t">>

\* file.replace(/\\/g, '\\\\'), line 320: every backslash is doubled.
RECURSIVE EscapeBackslashes(_)
EscapeBackslashes(cs) ==
  IF cs = <<>> THEN <<>>
  ELSE (IF cs[1] = "\\" THEN <<"\\", "\\">> ELSE <<cs[1]>>)
         \o EscapeBackslashes(Tail(cs))

\* `source = '${...}'`, line 320
FilterText(file) ==
  <<"s", "o", "u", "r", "c", "e", " ", "=", " ", "'">>
    \o EscapeBackslashes(file) \o <<"'">>

\* The predicate language of table.delete, as far as such a filter gets into
\* it: comparisons of the column source with a string literal, joined by OR.
\* A string literal ends at the first quote that is not doubled.
RECURSIVE ReadLiteral(_, _, _)
ReadLiteral(cs, pos, acc) ==
  IF pos > Len(cs) THEN [ok |-> FALSE, val |-> acc, next |-> pos]
  ELSE IF cs[pos] # "'" THEN ReadLiteral(cs, pos + 1, Append(acc, cs[pos]))
  ELSE IF pos + 1 <= Len(cs) /\ cs[pos + 1] = "'"
    THEN ReadLiteral(cs, pos + 2, Append(acc, "'"))
    ELSE [ok |-> TRUE, val |-> acc, next |-> pos + 1]

RECURSIVE ReadWord(_, _, _)
ReadWord(cs, pos, acc) ==
  IF pos > Len(cs) \/ cs[pos] \in {" ", "'", "=", "!"}
    THEN [val |-> acc, next |-> pos]
    ELSE ReadWord(cs, pos + 1, Append(acc, cs[pos]))

RECURSIVE Tokens(_, _, _)
Tokens(cs, pos, acc) ==
  IF pos > Len(cs) THEN [ok |-> TRUE, toks |-> acc]
  ELSE IF cs[pos] = " " THEN Tokens(cs, pos + 1, acc)
  ELSE IF cs[pos] = "'"
    THEN LET lit == ReadLiteral(cs, pos + 1, <<>>) IN
         IF lit.ok
           THEN Tokens(cs, lit.next,
                       Append(acc, [kind |-> "string", val |-> lit.val]))
           ELSE [ok |-> FALSE, toks |-> acc]
  ELSE IF cs[pos] = "="
    THEN Tokens(cs, pos + 1, Append(acc, [kind |-> "op", val |-> <<"=">>]))
  ELSE IF cs[pos] = "!"
    THEN IF pos + 1 <= Len(cs) /\ cs[pos + 1] = "="
           THEN Tokens(cs, pos + 2,
                       Append(acc, [kind |-> "op", val |-> <<"!", "=">>]))
           ELSE [ok |-> FALSE, toks |-> acc]
  ELSE LET w == ReadWord(cs, pos, <<>>) IN
       Tokens(cs, w.next, Append(acc, [kind |-> "word", val |-> w.val]))

\* The comparisons of a filter, or the fact that it does not parse.
RECURSIVE ParseTerms(_, _, _)
ParseTerms(toks, i, acc) ==
  IF i + 2 > Len(toks) THEN [ok |-> FALSE, terms |-> acc]
  ELSE IF ~(/\ toks[i] = [kind |-> "word", val |-> <<"s", "o", "u", "r", "c", "e">>]
            /\ toks[i + 1].kind = "op"
            /\ toks[i + 2].kind = "string")
    THEN [ok |-> FALSE, terms |-> acc]
  ELSE LET term == [op |-> toks[i + 1].val, lit |-> toks[i + 2].val] IN
       IF i + 2 = Len(toks) THEN [ok |-> TRUE, terms |-> Append(acc, term)]
       ELSE IF toks[i + 3] = [kind |-> "word", val |-> <<"O", "R">>]
         THEN ParseTerms(toks, i + 4, Append(acc, term))
         ELSE [ok |-> FALSE, terms |-> acc]

\* Whether a row with this source satisfies the parsed filter.
FilterSelects(terms, src) ==
  \E j \in 1..Len(terms) :
    IF terms[j].op = <<"=">> THEN src = terms[j].lit ELSE src # terms[j].lit

\* The tables the delete may find: rows of the sample and of the files, one
\* row for each source at most, in a fixed order.
AllSources == <<(<<"s", "a", "m", "p", "l", "e">>), PlainPath, QuotePath, DoubledPath, CraftedPath>>
SourcesIn(S) == SelectSeq(AllSources, LAMBDA x : x \in S)

\* Line 320 is reached for a file of the work set, the table being there.
DelCall ==
  /\ dPc = "idle"
  /\ \E file \in ({PlainPath, QuotePath, DoubledPath, CraftedPath}) :
     \E S \in SUBSET {AllSources[j] : j \in 1..Len(AllSources)} :
       /\ dFile' = file
       /\ dRows' = SourcesIn(S)
       /\ dOut' = SourcesIn(S)
  /\ dPc' = "called"
  /\ UNCHANGED <<toolVars, geVars, chunkVars, scriptVars, parserVars, retrVars,
                 zipVars, textVars>>

\* table.delete(filter), line 320: a filter that does not parse makes it
\* throw; one that parses removes the rows it selects.
DelReturn ==
  /\ dPc = "called"
  /\ LET t == Tokens(FilterText(dFile), 1, <<>>)
         f == IF t.ok THEN ParseTerms(t.toks, 1, <<>>)
              ELSE [ok |-> FALSE, terms |-> <<>>] IN
     IF f.ok
       THEN /\ dOut' = SelectSeq(dRows, LAMBDA x : ~FilterSelects(f.terms, x))
            /\ dPc' = "deleted"
       ELSE /\ dPc' = "threw"
            /\ UNCHANGED dOut
  /\ UNCHANGED <<dFile, dRows>>
  /\ UNCHANGED <<toolVars, geVars, chunkVars, scriptVars, parserVars, retrVars,
                 zipVars, textVars>>

DelNext == DelCall \/ DelReturn

\* The tool, or a lone delete of its file loop.
NextFramed ==
  \/ dPc = "idle" /\ Next
  \/ run = 0 /\ mtime = [p \in Paths |-> 1] /\ DelNext

SpecFramed == Init /\ [][NextFramed]_vars

\* ---------------------------------------------------------------- helpers
Rows(rows, p) == SelectSeq(rows, LAMBDA r : r.source = p)
TextsOf(rows) == [j \in 1..Len(rows) |-> rows[j].text]
\* The file was cached with another modification time when the run started.
\* The run in progress has committed the file.
\* C1 as stated: a run that follows a finished run over the unchanged corpus
\* makes no embedding call and no createTable, delete or add call.
C1_AsStated == after \in {"returned", "complete"} => ~embedded /\ ~mutated

\* C1: a run that follows, over the unchanged corpus, a finished run that
\* committed every file of its work set makes no embedding call and no
\* createTable, delete or add call.
C1_Idempotence == after = "complete" => ~embedded /\ ~mutated

\* The second run of C1 has returned "up to date".
C1_Witness ==
  /\ after = "complete" /\ run >= 2 /\ pc = "idle" /\ result = "uptodate"
  /\ \E p \in Paths : Rows(table, p) # <<>>

\* The loop has just left file p, and nothing outside the program went wrong
\* while p was processed: p was committed with every chunk embedded, or its
\* delete was refused because of the filter the program built.
VisitedUnharmed(p) ==
  /\ pc \in {"head", "persist"}
  /\ last.path = p
  /\ \/ last.status = "badfilter"
     \/ last.status = "committed" /\ Len(last.ok) = ChunkCount(p, mtime[p])

\* C2: when a run has processed a file that was cached with another
\* modification time, the index holds for that source no row of an earlier run
\* and exactly the rows of the chunks of the file as it is now.
C2_ChangeDetection ==
  \A p \in Paths :
    VisitedUnharmed(p) /\ LoadCache[p] # 0 /\ LoadCache[p] # mtime[p] =>
      /\ TextsOf(Rows(table, p)) = ChunkTexts(p, mtime[p])
      /\ \A j \in 1..Len(table) : table[j].source = p => table[j].run = run

ChunksPresent(p, v) ==
  \A c \in 1..ChunkCount(p, v) :
    \E j \in 1..Len(table) : table[j].source = p /\ table[j].text = <<p, v, c>>

\* C4: while no run is in progress, a file with chunks has a cache entry if
\* and only if its chunks are rows of the index under its path (the chunks of
\* the version the entry names, or of the file as it is when there is none).
C4_CacheIffIndexed ==
  pc = "idle" =>
    \A p \in Paths :
      LET v == IF LoadCache[p] # 0 THEN LoadCache[p] ELSE mtime[p] IN
      ChunkCount(p, v) > 0 => (LoadCache[p] # 0 <=> ChunksPresent(p, v))

\* C5: the cache on disk is never ahead of the index: an entry of
\* processed.json names a processing whose rows had been written, and a member
\* of processed_files.json a file whose documents had been saved.
C5_CacheNotAhead ==
  /\ \A p \in Paths : LoadCache[p] # 0 => <<p, LoadCache[p]>> \in written
  /\ sLog \subseteq sSaved

\* A pipeline has written the entry of a file whose rows are in the index: the
\* tool after a run with a failed file, or the script.
C5_Witness ==
  \/ \E p \in Paths :
       /\ cacheFile = "valid" /\ diskCache[p] # 0 /\ Rows(table, p) # <<>>
       /\ \E q \in Paths : diskCache[q] = 0
  \/ /\ "a.txt" \in sLog
     /\ \E j \in 1..Len(sDisk.docs) : sDisk.docs[j][1] = "a.txt"

\* C6: the run that follows an interrupted run has gone through its whole work
\* set; the index then holds every chunk of the file as it is now exactly
\* once, and nothing else for that source.
C6_CrashResume ==
  \A p \in Paths :
    after = "interrupted" /\ pc = "persist" /\ idx > Len(filesToProcess)
      /\ VisitedUnharmed(p) =>
        TextsOf(Rows(table, p)) = ChunkTexts(p, mtime[p])

\* C7: when the processing of a file that had rows fails with a per-file
\* error, the file stays stale and its old rows are all still there.
C7_FailedKeepsOld ==
  \A p \in Paths :
    pc \in {"head", "persist"} /\ last.path = p
      /\ last.status \in {"failed", "badfilter", "embedfailed"}
      /\ Rows(table0, p) # <<>> =>
        /\ processedFiles[p] # mtime[p]
        /\ Rows(table, p) = Rows(table0, p)

\* What C8 calls a failed attempt and a valid response; an empty array is
\* left to C9.
AttemptFailed(resp) ==
  \/ resp.kind # "array"
  \/ \E j \in 1..Len(resp.vals) : resp.vals[j] \in {"nan", "inf"}
AttemptValid(resp) ==
  /\ resp.kind = "array"
  /\ Len(resp.vals) > 0
  /\ \A j \in 1..Len(resp.vals) : resp.vals[j] \in {"one", "huge"}

\* C8: getEmbedding calls the service at most 3 times and never throws; it
\* returns a vector when one of its attempts got a valid response, and null
\* when all 3 attempts failed.
C8_RetryBound ==
  /\ Len(geLog) <= DefaultRetries
  /\ gePc # "threw"
  /\ gePc = "returned" =>
       /\ (\E j \in 1..Len(geLog) : AttemptValid(geLog[j])) => ~geOut.isNull
       /\ (Len(geLog) = DefaultRetries /\ \A j \in 1..DefaultRetries : AttemptFailed(geLog[j]))
            => geOut.isNull
       /\ geOut.isNull => Len(geLog) = DefaultRetries

\* Two failures, then a success; and three failures.
C8_Witness ==
  /\ gePc = "returned" /\ Len(geLog) = DefaultRetries
  /\ AttemptFailed(geLog[1]) /\ AttemptFailed(geLog[2]) /\ AttemptValid(geLog[3])
  /\ ~geOut.isNull

\* C9: a vector returned by getEmbedding is a non-empty sequence of finite
\* numbers.
C9_FiniteNonEmpty ==
  gePc = "returned" /\ ~geOut.isNull =>
    /\ Len(geOut.vec) > 0
    /\ \A j \in 1..Len(geOut.vec) : geOut.vec[j] \notin {"nan", "inf"}

\* C10: an embedding that fails never fails the file; every chunk is tried,
\* the rows collected are those of the chunks that got an embedding, in chunk
\* order, and they are the rows the file has once it is committed.
C10_PerChunkIsolation ==
  /\ last.status # "embedfailed"
  /\ pc = "add" =>
       /\ k = Len(CurChunks) + 1
       /\ TextsOf(data) = [j \in 1..Len(embOk) |-> CurChunks[embOk[j]]]
       /\ \A j \in 1..Len(data) : data[j].source = CurFile.path
  /\ pc \in {"head", "persist"} /\ last.status = "committed" =>
       /\ TextsOf(Rows(table, last.path)) =
            [j \in 1..Len(last.ok) |-> <<last.path, mtime[last.path], last.ok[j]>>]
       /\ processedFiles[last.path] = mtime[last.path]

\* A file was committed with one chunk dropped and another one inserted.
C10_Witness ==
  /\ pc \in {"head", "persist"} /\ last.status = "committed"
  /\ last.ok = <<2>>
  /\ ChunkCount(last.path, mtime[last.path]) = 2
  /\ Len(Rows(table, last.path)) = 1

\* C11: a file that fails or is skipped does not end the run: the file loop
\* is left only when every file of the work set has been visited (or the
\* cancellation was seen), in the tool and in the script; and a file committed
\* after another one failed or was skipped has its cache entry and its rows.
C11_ErrorsStayInFile ==
  /\ pc = "persist" => aborted \/ idx > Len(filesToProcess)
  /\ pc \in {"head", "persist"} /\ incomplete /\ last.status = "committed" =>
       /\ processedFiles[last.path] = mtime[last.path]
       /\ Len(Rows(table, last.path)) = Len(last.ok)
       /\ \A j \in 1..Len(table) :
            table[j].source = last.path => table[j].run = run
  /\ sPc = "savelog" => sIdx > Len(sFiles)

\* The first file of the work set failed or was skipped, the second one was
\* committed with rows, and the loop is over without a cancellation.
C11_Witness ==
  /\ pc = "persist" /\ ~aborted /\ incomplete
  /\ Len(filesToProcess) = 2 /\ idx = 3
  /\ last.status = "committed" /\ Len(last.ok) > 0
  /\ Rows(table, filesToProcess[1].path) = <<>>

\* C12: when there is no table and getEmbedding("sample") gives null, the run
\* ends with the failure report before any file is visited, with the table
\* names, the rows and the cache file as they were; a table is created only
\* with a sample embedding in hand.
C12_FatalBootstrap ==
  /\ [](pc = "sample" =>
          /\ ~tableExists /\ LANCEDB_TABLE_NAME \notin tableNames
          /\ idx = 1 /\ last = NoFile /\ ~mutated
          /\ table = table0 /\ processedFiles = LoadCache)
  /\ [][pc = "sample" /\ result' = "nosample" =>
          /\ pc' = "idle"
          /\ tableNames' = tableNames /\ table' = table
          /\ cacheFile' = cacheFile /\ diskCache' = diskCache
          /\ ~mutated']_vars
  /\ [][pc = "sample" /\ LANCEDB_TABLE_NAME \in tableNames' =>
          /\ Len(table') = 1
          /\ table'[1].vector # Null.vec]_vars

\* A run has ended on the missing sample embedding, after calls of the service.
C12_Witness ==
  /\ pc = "idle" /\ result = "nosample" /\ embedded /\ ~mutated
  /\ LANCEDB_TABLE_NAME \notin tableNames /\ table = <<>>
  /\ cacheFile = "missing"

\* The files of the work set the loop has not visited.
MidFile == {"delete", "embed", "add"}

\* C13: the signal is looked at between files only.  A file in progress goes
\* on to its own outcome: the loop is left from its head, never from the
\* middle of a file.  Once the signal is seen at the head the loop is over:
\* the unvisited files keep their rows and have no entry of this run, the
\* index is not touched any more, and the cache file written is the map with
\* the entries of the files committed before.
C13_CancelBetweenFiles ==
  /\ [][(pc \in MidFile) => (pc' \in MidFile \/ pc' = "head" \/ pc' = "idle")]_vars
  /\ [][(pc \in MidFile) /\ pc' = "head" =>
          idx' = idx + 1 /\ last'.path = filesToProcess[idx].path]_vars
  /\ [][pc = "head" /\ aborted /\ idx <= Len(filesToProcess) =>
          (pc' = "persist" \/ pc' = "idle")]_vars
  /\ [](pc = "persist" =>
          /\ \A p \in ({filesToProcess[j].path : j \in idx..Len(filesToProcess)}) :
               /\ Rows(table, p) = Rows(table0, p)
               /\ processedFiles[p] = LoadCache[p]
          /\ last.status = "committed" =>
               processedFiles[last.path] = mtime[last.path])
  /\ [][pc = "persist" =>
          /\ table' = table /\ tableNames' = tableNames
          /\ embedded' = embedded /\ mutated' = mutated
          /\ result' = "finished" =>
               (cacheFile' = "valid" /\ diskCache' = processedFiles)]_vars

\* The signal came while the first file of two was in progress (had it been
\* set before, the loop head would have seen it), and the file has gone on to
\* its insert with the rows of its chunks.
C13_Witness ==
  /\ pc = "add" /\ aborted /\ data # <<>>
  /\ idx = 1 /\ Len(filesToProcess) = 2

\* C14: a run cancelled before it starts, or between two files, returns a
\* report that is neither a success report nor an error report.
C14_CancelReportDistinct ==
  [][((pc = "persist" /\ idx <= Len(filesToProcess)) /\ pc' = "idle" /\ result' # "interrupted") =>
       (/\ result' \notin {"finished", "uptodate"}
        /\ result' \notin {"failed", "nosample", "rejected", "typeerror"})]_vars

\* C15: the count of the final report is the number of files committed in
\* the run.
C15_ReportCount ==
  [][(pc = "persist" /\ result' = "finished") =>
       Len(filesToProcess) =
         Cardinality({j \in 1..Len(filesToProcess) :
           processedFiles[filesToProcess[j].path] = filesToProcess[j].mtime})]_vars

\* A call of execute, as one step.
ExecuteStep == pc = "idle" /\ run' = run + 1

\* C16: a run whose diff finds no stale file ends in that very step: there is
\* no connection, no table is created, no embedding is asked for and the cache
\* file is not written; the script neither loads the index nor writes the
\* processed log.
C16_UpToDateShortCircuit ==
  /\ [][ExecuteStep => (pc' # "idle" => filesToProcess' # <<>>)]_vars
  /\ [][(ExecuteStep /\ (WorkSet(LoadCache) = <<>> \/ result' = "uptodate")) =>
          /\ pc' = "idle"
          /\ table' = table /\ tableNames' = tableNames
          /\ cacheFile' = cacheFile /\ diskCache' = diskCache
          /\ ~embedded' /\ ~mutated']_vars
  /\ [][(sPc = "off" /\ sRuns' = sRuns + 1) =>
          /\ sPc' = "loop" => sFiles' # <<>>
          /\ sPc' = "off" =>
               /\ sStore' = NoStore /\ sDisk' = sDisk
               /\ sLog' = sLog /\ sSaved' = sSaved]_vars

\* A run has found every file up to date: the tool with both files cached at
\* their modification times, or the script with every file in its log.
C16_Witness ==
  \/ /\ pc = "idle" /\ result = "uptodate" /\ cacheFile = "valid"
     /\ \A p \in Paths : diskCache[p] = mtime[p]
     /\ LANCEDB_TABLE_NAME \in tableNames
  \/ /\ sPc = "off" /\ sRuns = 2 /\ sExit = 0
     /\ sLog = {"a.txt", "e.txt", "b.pdf"}

\* Position of a path in the traversal.
WalkIndex(p) == CHOOSE i \in 1..Len(WalkOrder) : WalkOrder[i] = p

\* C17: after the diff, a file is in the work set if and only if the loaded
\* cache has no entry for it or an entry with another modification time,
\* smaller or greater; the work set holds each such file once, with its
\* current modification time, in traversal order; a run that reports
\* "up to date" found no such file.
C17_StaleRule ==
  /\ pc = "connect" =>
       /\ \A p \in Paths :
            (\E j \in 1..Len(filesToProcess) : filesToProcess[j].path = p) <=>
              (LoadCache[p] = 0 \/ LoadCache[p] < mtime[p] \/ LoadCache[p] > mtime[p])
       /\ \A i, j \in 1..Len(filesToProcess) :
            i < j => WalkIndex(filesToProcess[i].path) < WalkIndex(filesToProcess[j].path)
       /\ \A j \in 1..Len(filesToProcess) :
            filesToProcess[j].mtime = mtime[filesToProcess[j].path]
       /\ processedFiles = LoadCache
  /\ pc = "idle" /\ result = "uptodate" =>
       \A p \in Paths : LoadCache[p] = mtime[p]

\* The work set is the second file alone, whose entry is newer than the file;
\* the first file is up to date.
C17_Witness ==
  /\ pc = "connect"
  /\ Len(filesToProcess) = 1
  /\ filesToProcess[1].path = WalkOrder[2]
  /\ LoadCache[WalkOrder[2]] > mtime[WalkOrder[2]]
  /\ LoadCache[WalkOrder[1]] = mtime[WalkOrder[1]]

SkipStatuses == {"nontext", "readerror", "zerobyte"}
NoParser(f) == ParserOfFile[f] = "null"

\* C18: the skip of a file for which no extractor applies changes neither the
\* index nor the entry of the file, which stays stale for the next diff (tool:
\* a file that is not text; script: a file without parser, which never gets
\* into the processed log).
C18_SkipLeavesNoTrace ==
  /\ [][(pc = "head" /\ pc' = "head" /\ last'.status \in SkipStatuses) =>
          /\ table' = table /\ tableNames' = tableNames
          /\ processedFiles' = processedFiles
          /\ mutated' = mutated /\ embedded' = embedded]_vars
  /\ [](pc \in {"head", "persist"} /\ last.status \in SkipStatuses =>
          /\ processedFiles[last.path] = LoadCache[last.path]
          /\ processedFiles[last.path] # mtime[last.path]
          /\ Rows(table, last.path) = Rows(table0, last.path))
  /\ [][(sPc = "loop" /\ sIdx' = sIdx + 1 /\ NoParser(sFiles[sIdx])) =>
          (sStore' = sStore /\ sProcessed' = sProcessed)]_vars
  /\ [](\A j \in 1..Len(ScriptWalk) :
          NoParser(ScriptWalk[j]) =>
            ScriptWalk[j] \notin sProcessed /\ ScriptWalk[j] \notin sLog)

\* A file that was indexed and cached, then modified, is skipped as not being
\* text: its old rows and its old entry are there at the end of the loop.
C18_Witness ==
  /\ pc = "persist" /\ last.status = "nontext"
  /\ Rows(table, last.path) # <<>>
  /\ LoadCache[last.path] # 0
  /\ processedFiles[last.path] = LoadCache[last.path]

\* C19: a file whose text is empty is marked processed by the run that visits
\* it: the tool gives a zero-byte or blank file its entry, and the script has
\* the empty file in its set when the loop is over.
C19_EmptyStillProcessed ==
  /\ pc \in {"head", "persist"}
       /\ (\/ last.status = "zerobyte"
           \/ last.status = "committed" /\ ChunkCount(last.path, mtime[last.path]) = 0) =>
         processedFiles[last.path] = mtime[last.path]
  /\ sPc = "savelog" /\ (\E j \in 1..Len(sFiles) : sFiles[j] = "e.txt") =>
       "e.txt" \in sProcessed

\* C20: every chunk semanticChunks yields that holds more than one sentence
\* is strictly shorter than the target size, and so is the buffer whenever it
\* holds more than one sentence.
C20_ChunkBound ==
  /\ \A j \in 1..Len(cOut) : cOut[j].n > 1 => cOut[j].len < cSize
  /\ cBuf.n > 1 => cBuf.len < cSize

\* C21: for one sequence of sentences, a smaller size never gives fewer
\* chunks: what a call with size N1 has yielded is at least as many chunks as
\* semanticChunks gives for every larger size N2.
C21_CountMonotone ==
  cPc = "done" =>
    \A n2 \in Sizes :
      cSize < n2 => Len(cOut) >= Len(semanticChunks(cSentences, n2))

\* A call with the small size has ended with more chunks than the default
\* size gives for the same sentences.
C21_Witness ==
  /\ cPc = "done" /\ cSize = 15
  /\ Len(cOut) = 3
  /\ Len(semanticChunks(cSentences, DefaultSize)) = 1

\* The chunks of the worked example: sentences of 13, 13 and 15 characters.
ExampleSentences == <<13, 13, 15>>

\* C22: when the loop has committed, with every chunk embedded, a file that
\* had no row when the run started, the index holds for that source exactly
\* the rows of its chunks, in chunk order, and the map holds for it the
\* modification time taken by the diff; semanticChunks with size 15 gives
\* three chunks for sentences of 13, 13 and 15 characters.
C22_FirstIngestion ==
  /\ \A p \in Paths :
       (/\ pc \in {"head", "persist"}
        /\ last.path = p /\ last.status = "committed"
        /\ Len(last.ok) = ChunkCount(p, mtime[p])
        /\ Rows(table0, p) = <<>>) =>
         /\ Len(Rows(table, p)) = ChunkCount(p, mtime[p])
         /\ TextsOf(Rows(table, p)) = ChunkTexts(p, mtime[p])
         /\ processedFiles[p] = filesToProcess[idx - 1].mtime
  /\ (cPc = "done" /\ cSentences = ExampleSentences /\ cSize = 15) =>
       cOut = ([j \in 1..3 |-> [len |-> ExampleSentences[j], n |-> 1]])

\* The first ingestion of a.txt, a file of two chunks, is committed.
C22_Witness ==
  /\ pc \in {"head", "persist"}
  /\ last.path = "a.txt" /\ last.status = "committed" /\ last.ok = <<1, 2>>
  /\ Rows(table0, "a.txt") = <<>>
  /\ Len(Rows(table, "a.txt")) = 2
  /\ processedFiles["a.txt"] = mtime["a.txt"]

\* What the dispatch gives for an extension in lower case.
ParserFor(e) ==
  CASE e = ".pdf" -> "PdfParser"
    [] e = ".docx" -> "DocxParser"
    [] e \in BINARY_EXTENSIONS -> "null"
    [] OTHER -> "TextParser"

\* C23: what getParser returns depends only on the extension of the file
\* taken in lower case: the PDF parser for .pdf, the DOCX parser for .docx,
\* null for the other extensions of the binary set, the text parser for the
\* rest and for no extension; a file that differs from the given one only in
\* the case of its extension, or only in its stem, gets the same result.
C23_ParserDispatch ==
  gpPc = "returned" =>
    /\ gpOut = ParserFor(Text(gpIn.ext))
    /\ \A in \in ParserInputs :
         in.ext = gpIn.ext => getParser(PathOf(in)) = gpOut

\* getParser has returned the PDF parser for a file named in upper case.
C23_Witness ==
  /\ gpPc = "returned"
  /\ gpIn.mode = "upper" /\ Text(gpIn.ext) = ".pdf"
  /\ gpOut = "PdfParser"

\* C24: the delete issued for a file has a filter that parses, whatever the
\* path, and no file is given up because its filter was refused.
C24_DeleteEscapes ==
  /\ pc = "delete" => FilterParses(CurFile.path)
  /\ pc \in {"head", "persist"} => last.status # "badfilter"

\* C25: a run that finds the cache file missing or with a content that is
\* not a map does not end on the load: it goes on with an empty map and every
\* walked file in its work set, and when it finishes the cache file holds the
\* entries of the map.
C25_CacheLoadNotFatal ==
  /\ [][(ExecuteStep /\ cacheFile # "valid") =>
          /\ result' # "typeerror"
          /\ result' = "running" =>
               (/\ processedFiles' = NoCache
                /\ filesToProcess' =
                     [j \in 1..Len(WalkOrder) |->
                        [path |-> WalkOrder[j], mtime |-> mtime[WalkOrder[j]]]])]_vars
  /\ [][(pc = "persist" /\ result' = "finished" /\ cacheFile # "valid") =>
          (cacheFile' = "valid" /\ diskCache' = processedFiles)]_vars

\* The lines of the context for the texts ts: the texts with a line of three
\* dashes between two of them.
RECURSIVE ContextLines(_)
ContextLines(ts) ==
  IF Len(ts) <= 1 THEN ts
  ELSE <<ts[1], "---">> \o ContextLines(Tail(ts))

\* C26: retrieveContextForQuery leaves the store as it is and always returns:
\* null when the directory or the table is missing, the query has no
\* embedding, the search gives nothing or a step raised; otherwise the line
\* "Context:", the texts of the five nearest rows at most, nearest first and
\* separated by lines of three dashes, an empty line, and "Question: " with
\* the query.
C26_RetrievalContract ==
  /\ [][(rPc # "idle") =>
          (rDir' = rDir /\ rNames' = rNames /\ rRanked' = rRanked
             /\ rQuery' = rQuery)]_vars
  /\ [](rPc # "threw")
  /\ [](rPc = "returned" =>
          IF \/ ~rDir \/ LANCEDB_TABLE_NAME \notin rNames
             \/ rEmb.isNull \/ rRanked = <<>> \/ rRaised
            THEN rOut.isNull
            ELSE /\ ~rOut.isNull
                 /\ rOut.str =
                      Join(<<"Context:">> \o ContextLines(([j \in 1..(IF Len(rRanked) < 5 THEN Len(rRanked) ELSE 5) |-> rRanked[j]]))
                             \o <<"", "Question: " \o rQuery>>, "\n"))

\* A context was returned for a table of more than five rows.
C26_Witness ==
  /\ rPc = "returned" /\ ~rOut.isNull
  /\ Len(rRanked) = 6
  /\ rOut.str = "Context:\nt1\n---\nt2\n---\nt3\n---\nt4\n---\nt5\n\nQuestion: why?"

\* C27: the script exits with 1 when the archive cannot be extracted and when
\* the embedding service failed while the index had to be created, and with
\* 0 when there was nothing to do or the run went to its end.
C27_ScriptExitCodes ==
  sPc = "off" =>
    /\ sEnd = "zip" => sExit = 1
    /\ sEnd = "nothing" => sExit = 0
    /\ sEnd = "finished" => sExit = (IF sNoIndex THEN 1 ELSE 0)

\* C28: when the promise of extractZipStream is resolved every file entry of
\* the archive has been written to the end; at most one read stream is open
\* at a time, and no entry is asked for while a read stream is open.
C28_ResolveAfterWrites ==
  /\ zPromise = "resolved" => (zWrites = {} /\ zWritten = ({j \in 1..Len(zEntries) : zEntries[j] = "file"}))
  /\ Cardinality(zReads) <= 1
  /\ zWant => zReads = {}

\* C29: for a file of the work set the embedding calls come first, then the
\* delete, then the insert, then the cache entry: once the delete of a file
\* is issued no embedding call follows for it, and an entry is set in the map
\* only by the step that has inserted the rows.
C29_StepOrder ==
  /\ [][(pc = "delete") => (pc' # "embed")]_vars
  /\ [][(pc = "embed" /\ tableExists) =>
          (pc' \in {"embed", "delete", "head", "idle"})]_vars
  /\ [][(pc # "idle" /\ pc' # "idle" /\ processedFiles' # processedFiles) =>
          pc = "add"]_vars

\* C30: a file with at least one chunk whose embeddings have all failed after
\* the retries is left stale: at the end of its iteration the map holds for it
\* what the cache file held, not the modification time the run has observed,
\* so the next run has it in its work set.
C30_AllFailedStaysStale ==
  (/\ pc \in {"head", "persist"}
   /\ last.status = "committed"
   /\ ChunkCount(last.path, mtime[last.path]) > 0
   /\ last.ok = <<>>) =>
    /\ processedFiles[last.path] = LoadCache[last.path]
    /\ processedFiles[last.path] # mtime[last.path]

\* C31: for a file whose text gives zero chunks no delete and no insert is
\* issued, whether or not the table existed before the run, and the step that
\* ends its iteration sets its entry: the delete step is never reached with
\* zero chunks, and the add step leaves the table as it is, calls nothing of
\* the index and commits the entry.
C31_ZeroChunksNoMutation ==
  /\ [](pc = "delete" => Len(CurChunks) > 0)
  /\ [][(pc = "add" /\ Len(CurChunks) = 0 /\ pc' = "head") =>
          /\ table' = table
          /\ mutated' = mutated
          /\ processedFiles'[CurFile.path] = CurFile.mtime]_vars

SampleRows(rows) == SelectSeq(rows, LAMBDA r : r.source = "sample")

C34_OnlyCorpusRecords ==
  \A j \in 1..Len(table) :
    /\ table[j].source \in Paths
    /\ \E v \in Mtimes :
         \E c \in 1..ChunkCount(table[j].source, v) :
           table[j].text = ChunkTexts(table[j].source, v)[c]

\* C35: the processing of a file f changes no row whose source is not the
\* path of f and no entry of the map but that of f: in the steps of the file
\* loop, and in the delete of the loop for every path, paths with quote
\* characters included: the rows of other sources are after the delete what
\* they were before, whether the delete throws or not.
C35_FileFrame ==
  /\ [][((pc \in {"delete", "embed", "add"} \/ (pc = "head" /\ idx <= Len(filesToProcess) /\ ~aborted)) /\ pc' # "idle") =>
          /\ \A p \in Paths \ {CurFile.path} :
               /\ processedFiles'[p] = processedFiles[p]
               /\ Rows(table', p) = Rows(table, p)
          /\ SampleRows(table') = SampleRows(table)]_vars
  /\ [](dPc \in {"deleted", "threw"} =>
          SelectSeq(dOut, LAMBDA x : x # dFile)
            = SelectSeq(dRows, LAMBDA x : x # dFile))

\* C36: a run whose calls all return or throw ends (no run is in progress
\* for ever), and a run that has ended has given one of the reports of
\* execute; getEmbedding makes at most 3 calls of the service for a text, the
\* work set names no file twice and the loop never goes back in it.
C36_RunTerminates ==
  /\ []<>(pc = "idle")
  /\ [](pc = "idle" /\ run > 0 => result \in ({"rejected", "cancelled", "uptodate", "finished", "failed", "nosample"}))
  /\ [](pc \in {"sample", "embed"} => attempt + 1 <= 3)
  /\ [](\A i, j \in 1..Len(filesToProcess) :
          i # j => filesToProcess[i].path # filesToProcess[j].path)
  /\ [][(pc # "idle" /\ pc' # "idle") => idx' \in {idx, idx + 1}]_vars
  /\ [][(pc = "head" /\ pc' \in {"delete", "embed", "add"}) =>
          last.path # CurFile.path]_vars

\* A run has gone through its loop, called the service and the index, and
\* returned the report of lines 349-352.
C36_Witness ==
  /\ pc = "idle" /\ run = 1 /\ result = "finished" /\ embedded /\ mutated

\* The paths that have an entry in a cache.
Keys(cache) == {p \in Paths : cache[p] # 0}

\* C37: no step removes a key from the cache file, so the set of the cached
\* paths only grows; the entry and the rows of a file that is no longer in
\* the directory stay as they were.
C37_EntriesStay ==
  /\ [][Keys(LoadCache) \subseteq Keys(LoadCache')]_vars
  /\ [][\A p \in gone : LoadCache'[p] = LoadCache[p]]_vars
  /\ [][\A p \in gone : Rows(table', p) = Rows(table, p)]_vars

\* The number of sentences in a sequence of chunks.
RECURSIVE SentencesIn(_)
SentencesIn(chunks) ==
  IF chunks = <<>> THEN 0 ELSE chunks[1].n + SentencesIn(Tail(chunks))

\* The length of the sentences ss[from + 1 .. from + n] joined by one space.
RECURSIVE JoinedLen(_, _, _)
JoinedLen(ss, from, n) ==
  IF n = 0 THEN 0
  ELSE IF n = 1 THEN ss[from + 1]
  ELSE ss[from + 1] + 1 + JoinedLen(ss, from + 1, n - 1)

\* C38: the chunks semanticChunks yields are the sentences of the text cut
\* into consecutive groups: no chunk is empty, chunk j is the sentences that
\* follow those of the chunks before it, joined in their order, every
\* sentence read so far is in a chunk or in the buffer, at the end every
\* sentence is in a chunk, and no sentence gives no chunk.
C38_Partition ==
  /\ \A j \in 1..Len(cOut) :
       LET from == SentencesIn(SubSeq(cOut, 1, j - 1)) IN
       /\ cOut[j].n >= 1 /\ cOut[j].len > 0
       /\ from + cOut[j].n <= Len(cSentences)
       /\ cOut[j].len = JoinedLen(cSentences, from, cOut[j].n)
  /\ cPc = "loop" =>
       /\ SentencesIn(cOut) + cBuf.n = cPos - 1
       /\ cBuf.len = JoinedLen(cSentences, SentencesIn(cOut), cBuf.n)
  /\ cPc = "done" => SentencesIn(cOut) = Len(cSentences)
  /\ (cPc = "done" /\ cSentences = <<>>) => cOut = <<>>

\* Sentences of 13, 15 and 1000 characters with the default size: the first
\* two make one chunk of 29 characters, the third is a chunk of its own.
C38_Witness ==
  /\ cPc = "done" /\ cSentences = <<13, 15, 1000>> /\ cSize = DefaultSize
  /\ cOut = <<[len |-> 29, n |-> 2], [len |-> 1000, n |-> 1]>>

====
